---- MODULE Spec2Model ----
(***************************************************************************)
(* transfer_nlp.runners.single_task: the Runner's per-batch update, the   *)
(* event handlers Runner.__init__ attaches to the trainer and evaluator    *)
(* engines, and the command-line entry point.                              *)
(*                                                                         *)
(* Python floats are modelled as exact rationals extended with the three   *)
(* non-finite values nan, +inf and -inf: finite arithmetic is exact        *)
(* (rounding is abstracted), non-finite arithmetic follows IEEE 754.       *)
(***************************************************************************)
EXTENDS Integers, Sequences, FiniteSets, TLC

VARIABLES
    \* ---- Runner configuration (fields of self, fixed at construction)
    cfg,
    \* ---- the data set: the values its batches give the loss and the metrics
    data,
    \* ---- values held by the caller of Runner.update between calls
    running_loss,      \* running_loss last returned (or the initial 0)
    running_metrics,   \* running_metrics dict last returned
    batch_index,       \* batch_index of the last call, -1 before any call
    ncalls,            \* number of update calls made so far
    \* ---- model / optimizer state touched by update
    grads,             \* "none" | "zero" | "raw" | "clipped"
    opt_steps,         \* number of optimizer.step() applied to the parameters
    \* ---- record of the last update call and of the current epoch
    last,              \* what the last call received, called and computed
    losses,            \* loss_batch of the calls 0..batch_index of this epoch
    chain_in,          \* running_loss handed to this epoch's batch_index = 0 call
    \* ---- command line, engines and handlers
    cli,               \* the --config argument and the module's slack_webhook_url
    pc,                \* "start" | "training" | "done"
    experiment_file,   \* file given to Runner.load_from_project
    launch,            \* "none" | "run_with_slack" | "run_pipeline"
    notifications,     \* chat messages posted so far
    trainer,           \* trainer engine state
    evaluator,         \* evaluator engine state
    early,             \* EarlyStopping handler state
    val_losses         \* validation loss of each evaluator run so far

uvars == <<cfg, data, running_loss, running_metrics, batch_index, ncalls, grads,
           opt_steps, last, losses, chain_in>>
evars == <<cli, pc, experiment_file, launch, notifications, trainer, evaluator,
           early, val_losses>>
vars == <<uvars, evars>>

----------------------------------------------------------------------------
(* Bounds *)
MaxBatchIndex == 3      \* batch_index ranges over 0..MaxBatchIndex
MaxCalls == 4           \* update calls per behaviour
MaxEpochs == 11         \* max_epochs of the trainer run
ItersPerEpoch == 2      \* batches in the training data loader

----------------------------------------------------------------------------
(* Python float values *)
RECURSIVE GCD(_, _)
GCD(a, b) == IF b = 0 THEN a ELSE GCD(b, a % b)

Abs(x) == IF x < 0 THEN -x ELSE x

\* the rational n/d, d > 0, in lowest terms
Fin(n, d) ==
    LET g == GCD(Abs(n), d)
    IN  [k |-> "fin", n |-> n \div g, d |-> d \div g]

NaN == [k |-> "nan", n |-> 0, d |-> 1]
PInf == [k |-> "pinf", n |-> 0, d |-> 1]
NInf == [k |-> "ninf", n |-> 0, d |-> 1]
Zero == Fin(0, 1)

IsFinite(a) == a.k = "fin"

Neg(a) ==
    CASE a.k = "fin" -> Fin(-a.n, a.d)
      [] a.k = "pinf" -> NInf
      [] a.k = "ninf" -> PInf
      [] OTHER -> NaN

Add(a, b) ==
    IF a.k = "nan" \/ b.k = "nan" THEN NaN
    ELSE IF a.k = "fin" /\ b.k = "fin" THEN Fin(a.n * b.d + b.n * a.d, a.d * b.d)
    ELSE IF a.k = "fin" THEN b
    ELSE IF b.k = "fin" THEN a
    ELSE IF a.k = b.k THEN a
    ELSE NaN

Sub(a, b) == Add(a, Neg(b))

\* a / m for a positive int m
DivInt(a, m) == IF a.k = "fin" THEN Fin(a.n, a.d * m) ELSE a

\* a < b; every comparison with nan is False
Lt(a, b) ==
    IF a.k = "nan" \/ b.k = "nan" THEN FALSE
    ELSE IF a.k = "fin" /\ b.k = "fin" THEN a.n * b.d < b.n * a.d
    ELSE IF a.k = b.k THEN FALSE
    ELSE a.k = "ninf" \/ b.k = "pinf"

----------------------------------------------------------------------------
(* Python values that are None or an int; truthiness *)
NoneInt == [none |-> TRUE, v |-> 0]
Int_(v) == [none |-> FALSE, v |-> v]
TruthyInt(m) == ~m.none /\ m.v # 0

NoneStr == [none |-> TRUE, s |-> ""]
Str(s) == [none |-> FALSE, s |-> s]
TruthyStr(x) == ~x.none /\ x.s # ""

----------------------------------------------------------------------------
(* Runner.update *)

\* inputs of the model
LossValues == {Fin(1, 1), Fin(3, 1), PInf}        \* loss.item()
PenaltyValues == {Fin(1, 1)}                      \* compute_penalty(model).item()
MetricValues == {Zero, Fin(1, 1)}                 \* a metric of one batch
MaskIndexValues == {NoneInt, Int_(0), Int_(3)}    \* self.mask_index
MetricNameSets == {{"accuracy"}, {"accuracy", "f1"}}   \* self.metrics.names

RunningKey(metric) == "running_" \o metric

\* the running_metrics dict a caller starts an epoch with
FreshMetrics ==
    [key \in {"running_accuracy", "running_f1", "other"} |->
        IF key = "other" THEN Fin(7, 1) ELSE Zero]

Configs ==
    [regularizer : BOOLEAN,           \* hasattr(self, "regularizer")
     gradient_clipping : BOOLEAN,     \* hasattr(self, "gradient_clipping")
     loss_has_mask : BOOLEAN,         \* hasattr(self.loss.loss, "mask")
     mask_index : MaskIndexValues,
     names : MetricNameSets]

\* The runs explored: every configuration on a data set of identical batches,
\* and the configurations that matter to the averages on data sets whose
\* batches differ in their loss, or in their metrics.
PlainData == [loss |-> {Fin(1, 1)}, metric |-> {Fin(1, 1)}, val_loss |-> {Fin(2, 1)}]
LossData == [loss |-> LossValues, metric |-> {Fin(1, 1)}, val_loss |-> {Fin(2, 1)}]
MetricData == [loss |-> {Fin(1, 1)}, metric |-> MetricValues, val_loss |-> {Fin(2, 1)}]
AverageConfigs ==
    {c \in Configs : c.gradient_clipping /\ c.loss_has_mask /\ c.mask_index = Int_(3)}
Runs ==
    (Configs \X {PlainData})
    \cup (AverageConfigs \X {LossData})
    \cup ({c \in AverageConfigs : c.regularizer} \X {MetricData})

\* (mutant) the test "self.mask_index is not None" in place of truthiness
LossParams_IsNotNone(loss_has_mask, mask_index) ==
    IF loss_has_mask /\ ~mask_index.none
    THEN [keys |-> {"input", "target", "mask_index"}, mask_index |-> mask_index]
    ELSE [keys |-> {"input", "target"}, mask_index |-> NoneInt]

\* loss_params: the keyword arguments built for the loss
LossParams(loss_has_mask, mask_index) ==
    IF loss_has_mask /\ TruthyInt(mask_index)
    THEN [keys |-> {"input", "target", "mask_index"}, mask_index |-> mask_index]
    ELSE [keys |-> {"input", "target"}, mask_index |-> NoneInt]

\* penalty = Tensor([0]) (+ the regularizer's penalty)
Penalty(has_regularizer, p) ==
    IF has_regularizer THEN Add(Zero, p) ELSE Zero

\* loss_batch = loss.item() + penalty.item()
LossBatch(loss, penalty) == Add(loss, penalty)

\* (mutant) the divisor counts one batch too many
RunningStep_OffByOne(running, batch, index) ==
    Add(running, DivInt(Sub(batch, running), index + 2))

\* (mutant) an exponential average with a fixed weight
RunningStep_Exponential(running, batch, index) ==
    Add(running, DivInt(Sub(batch, running), 2))

\* running += (batch - running) / (batch_index + 1)
RunningStep(running, batch, index) ==
    Add(running, DivInt(Sub(batch, running), index + 1))

\* (mutant) backpropagating loss + penalty
BackwardValue_WithPenalty(loss, penalty) == Add(loss, penalty)

\* the tensor loss.backward() differentiates
BackwardValue(loss, penalty) == loss

\* (mutant) clipping placed before the backward pass
UpdateCalls_ClipFirst(compute_gradient, has_clipping) ==
    (IF compute_gradient THEN <<"zero_grad">> ELSE <<>>)
    \o <<"forward", "loss">>
    \o (IF compute_gradient
        THEN (IF has_clipping THEN <<"clip_grad_norm_">> ELSE <<>>)
             \o <<"backward", "step">>
        ELSE <<>>)

\* (mutant) the optimizer step taken outside the compute_gradient test
UpdateCalls_AlwaysStep(compute_gradient, has_clipping) ==
    (IF compute_gradient THEN <<"zero_grad">> ELSE <<>>)
    \o <<"forward", "loss">>
    \o (IF compute_gradient
        THEN <<"backward">>
             \o (IF has_clipping THEN <<"clip_grad_norm_">> ELSE <<>>)
        ELSE <<>>)
    \o <<"step">>

\* the calls update makes on the optimizer, the model and the gradients, in order
UpdateCalls(compute_gradient, has_clipping) ==
    (IF compute_gradient THEN <<"zero_grad">> ELSE <<>>)
    \o <<"forward", "loss">>
    \o (IF compute_gradient
        THEN <<"backward">>
             \o (IF has_clipping THEN <<"clip_grad_norm_">> ELSE <<>>)
             \o <<"step">>
        ELSE <<>>)

\* (mutant) the metrics averaged with a divisor of their own
MetricsStep_OwnDivisor(metrics, names, metric_batch, index) ==
    [key \in DOMAIN metrics |->
        IF \E m \in names : key = RunningKey(m)
        THEN LET m == CHOOSE m \in names : key = RunningKey(m)
             IN  RunningStep(metrics[key], metric_batch[m], index + 1)
        ELSE metrics[key]]

\* the for loop over self.metrics.names
MetricsStep(metrics, names, metric_batch, index) ==
    [key \in DOMAIN metrics |->
        IF \E m \in names : key = RunningKey(m)
        THEN LET m == CHOOSE m \in names : key = RunningKey(m)
             IN  RunningStep(metrics[key], metric_batch[m], index)
        ELSE metrics[key]]

\* effect of one call on the gradients
GradsAfter(g, call) ==
    CASE call = "zero_grad" -> "zero"
      [] call = "backward" -> "raw"
      [] call = "clip_grad_norm_" -> "clipped"
      [] OTHER -> g

RECURSIVE GradsAfterAll(_, _)
GradsAfterAll(g, calls) ==
    IF calls = <<>> THEN g
    ELSE GradsAfterAll(GradsAfter(g, Head(calls)), Tail(calls))

\* number of optimizer.step() among the calls
StepsIn(calls) == Cardinality({i \in DOMAIN calls : calls[i] = "step"})

NoCall ==
    [called |-> FALSE, compute_gradient |-> FALSE, batch_index |-> 0,
     loss |-> Zero, penalty |-> Zero, loss_batch |-> Zero,
     running_loss_in |-> Zero, running_metrics_in |-> FreshMetrics,
     metric_batch |-> [m \in {} |-> Zero],
     loss_params |-> LossParams(FALSE, NoneInt),
     metric_params |-> [m \in {} |-> LossParams(FALSE, NoneInt)],
     calls |-> <<>>, backward |-> <<>>, grads_in |-> "none", opt_steps_in |-> 0]

\* one call update(batch_dict, rl_in, index, rm_in, compute_gradient); the batch
\* determines the loss, the penalty p and the metric values metric_batch
UpdateCall(index, rl_in, rm_in, compute_gradient, loss, p, metric_batch) ==
    LET loss_params == LossParams(cfg.loss_has_mask, cfg.mask_index)
        penalty == Penalty(cfg.regularizer, p)
        loss_batch == LossBatch(loss, penalty)
        calls == UpdateCalls(compute_gradient, cfg.gradient_clipping)
    IN  /\ ncalls < MaxCalls
        /\ index <= MaxBatchIndex
        /\ ncalls' = ncalls + 1
        /\ batch_index' = index
        /\ running_loss' = RunningStep(rl_in, loss_batch, index)
        /\ running_metrics' = MetricsStep(rm_in, cfg.names, metric_batch, index)
        /\ grads' = GradsAfterAll(grads, calls)
        /\ opt_steps' = opt_steps + StepsIn(calls)
        /\ losses' = IF index = 0 THEN <<loss_batch>> ELSE Append(losses, loss_batch)
        /\ chain_in' = IF index = 0 THEN rl_in ELSE chain_in
        /\ last' = [called |-> TRUE, compute_gradient |-> compute_gradient,
                    batch_index |-> index, loss |-> loss, penalty |-> penalty,
                    loss_batch |-> loss_batch, running_loss_in |-> rl_in,
                    running_metrics_in |-> rm_in, metric_batch |-> metric_batch,
                    loss_params |-> loss_params,
                    metric_params |-> [m \in cfg.names |-> loss_params],
                    calls |-> calls,
                    backward |-> IF compute_gradient
                                 THEN <<BackwardValue(loss, penalty)>> ELSE <<>>,
                    grads_in |-> grads, opt_steps_in |-> opt_steps]
        /\ UNCHANGED <<cfg, data, evars>>

BatchInputs(Op(_, _, _, _)) ==
    \E compute_gradient \in BOOLEAN, loss \in data.loss :
    \E p \in (IF cfg.regularizer THEN PenaltyValues ELSE {Zero}) :
    \E metric_batch \in [cfg.names -> data.metric] :
        Op(compute_gradient, loss, p, metric_batch)

\* next batch of the epoch: batch_index + 1 and the averages the last call
\* returned (the first call of a run gets index 0 and the fresh averages)
UpdateNext ==
    LET Op(cg, loss, p, mb) ==
            UpdateCall(batch_index + 1, running_loss, running_metrics, cg, loss, p, mb)
    IN  BatchInputs(Op)

\* first batch of a new epoch: batch_index restarts at 0 and the caller hands in
\* the averages the previous epoch ended with
UpdateRestart ==
    LET Op(cg, loss, p, mb) ==
            UpdateCall(0, running_loss, running_metrics, cg, loss, p, mb)
    IN  /\ batch_index >= 0
        /\ BatchInputs(Op)

\* the engines and handlers as Runner.__init__ leaves them, before __main__ runs
EngineStart ==
    /\ pc = "start"
    /\ experiment_file = NoneStr
    /\ launch = "none"
    /\ notifications = <<>>
    /\ trainer = [epoch |-> 0, iteration |-> 0, batch |-> 0, output |-> Zero,
                  should_terminate |-> FALSE, state |-> "idle",
                  terminated_by |-> {}]
    /\ evaluator = [runs |-> 0, should_terminate |-> FALSE]
    /\ early = [has_best |-> FALSE, best_score |-> Zero, counter |-> 0, calls |-> 0]
    /\ val_losses = <<>>

EngineIdle ==
    /\ cli = [config |-> NoneStr, webhook_url |-> "YourWebhookURL"]
    /\ EngineStart

UpdateIdle ==
    /\ running_loss = Zero
    /\ running_metrics = FreshMetrics
    /\ batch_index = -1
    /\ ncalls = 0
    /\ grads = "none"
    /\ opt_steps = 0
    /\ last = NoCall
    /\ losses = <<>>
    /\ chain_in = Zero

Init ==
    /\ \E run \in Runs : cfg = run[1] /\ data = run[2]
    /\ UpdateIdle
    /\ EngineIdle

Next == UpdateNext \/ UpdateRestart

Spec == Init /\ [][Next]_vars

----------------------------------------------------------------------------
(* Runner.__init__: the handlers attached to the engines; __main__ *)

Patience == 10

\* every handler Runner.__init__ attaches, with its engine and event
Handlers_NanOnEvaluator ==
    {[engine |-> "trainer", event |-> "ITERATION_COMPLETED", handler |-> "OutputHandler"],
     [engine |-> "evaluator", event |-> "EPOCH_COMPLETED", handler |-> "OutputHandler"],
     [engine |-> "trainer", event |-> "ITERATION_STARTED", handler |-> "OptimizerParamsHandler"],
     [engine |-> "trainer", event |-> "ITERATION_COMPLETED", handler |-> "WeightsScalarHandler"],
     [engine |-> "trainer", event |-> "EPOCH_COMPLETED", handler |-> "WeightsHistHandler"],
     [engine |-> "trainer", event |-> "ITERATION_COMPLETED", handler |-> "GradsScalarHandler"],
     [engine |-> "trainer", event |-> "EPOCH_COMPLETED", handler |-> "GradsHistHandler"],
     [engine |-> "trainer", event |-> "COMPLETED", handler |-> "end_tensorboard"],
     [engine |-> "trainer", event |-> "EPOCH_COMPLETED", handler |-> "log_embeddings"],
     [engine |-> "trainer", event |-> "EPOCH_COMPLETED", handler |-> "ModelCheckpoint"],
     [engine |-> "evaluator", event |-> "COMPLETED", handler |-> "EarlyStopping"],
     [engine |-> "evaluator", event |-> "ITERATION_COMPLETED", handler |-> "TerminateOnNan"]}

Handlers ==
    {[engine |-> "trainer", event |-> "ITERATION_COMPLETED", handler |-> "OutputHandler"],
     [engine |-> "evaluator", event |-> "EPOCH_COMPLETED", handler |-> "OutputHandler"],
     [engine |-> "trainer", event |-> "ITERATION_STARTED", handler |-> "OptimizerParamsHandler"],
     [engine |-> "trainer", event |-> "ITERATION_COMPLETED", handler |-> "WeightsScalarHandler"],
     [engine |-> "trainer", event |-> "EPOCH_COMPLETED", handler |-> "WeightsHistHandler"],
     [engine |-> "trainer", event |-> "ITERATION_COMPLETED", handler |-> "GradsScalarHandler"],
     [engine |-> "trainer", event |-> "EPOCH_COMPLETED", handler |-> "GradsHistHandler"],
     [engine |-> "trainer", event |-> "COMPLETED", handler |-> "end_tensorboard"],
     [engine |-> "trainer", event |-> "EPOCH_COMPLETED", handler |-> "log_embeddings"],
     [engine |-> "trainer", event |-> "EPOCH_COMPLETED", handler |-> "ModelCheckpoint"],
     [engine |-> "evaluator", event |-> "COMPLETED", handler |-> "EarlyStopping"],
     [engine |-> "trainer", event |-> "ITERATION_COMPLETED", handler |-> "TerminateOnNan"]}

Attached(engine, event, handler) ==
    [engine |-> engine, event |-> event, handler |-> handler] \in Handlers

\* (mutant) the validation loss itself as score
score_function_NotNegated(metrics) == metrics.loss

\* score_function(engine): the negated validation loss
score_function(metrics) == Neg(metrics.loss)

\* EarlyStopping(patience=10, score_function=score_function, trainer=self.trainer)
EarlyStoppingArgs == [patience |-> Patience, trainer |-> "trainer"]

\* (mutant) only an absent --config gets the default
ExperimentFile_NoneOnly(config) ==
    IF config.none THEN Str("experiments/mlp.json") ELSE config

\* args.config or 'experiments/mlp.json'
ExperimentFile(config) ==
    IF TruthyStr(config) THEN config ELSE Str("experiments/mlp.json")

\* (mutant) any non-empty URL counts as configured
WebhookConfigured_NonEmpty(url) == url # ""

\* slack_webhook_url and slack_webhook_url != "YourWebhookURL"
WebhookConfigured(url) == url # "" /\ url # "YourWebhookURL"

\* the branch of __main__ that runs the experiment
Launch(url) ==
    IF WebhookConfigured(url) THEN "run_with_slack" ELSE "run_pipeline"

----------------------------------------------------------------------------
(* The engines, the framework's handlers and the notification decorator *)

TrainerOutputs == {Fin(1, 1), NaN, PInf}
ConfigArgs == {NoneStr, Str(""), Str("experiments/lstm.json")}
WebhookURLs == {"", "YourWebhookURL", "https://hooks.slack.com/services/T0"}
CommandLines == [config : ConfigArgs, webhook_url : WebhookURLs]
ValData == [loss |-> {Fin(1, 1)}, metric |-> {Fin(1, 1)},
            val_loss |-> {Fin(1, 1), Fin(2, 1)}]
EngineRuns ==
    (CommandLines \X {PlainData})
    \cup ({[config |-> NoneStr, webhook_url |-> "YourWebhookURL"]} \X {ValData})

\* TerminateOnNan()(engine): terminate the engine on a non-finite output
TerminateOnNan(engine) ==
    IF ~IsFinite(engine.output)
    THEN [engine EXCEPT !.should_terminate = TRUE,
                        !.terminated_by = @ \cup {"TerminateOnNan"}]
    ELSE engine

\* the handlers of a trainer event that change the trainer
FireTrainer(event, engine) ==
    IF Attached("trainer", event, "TerminateOnNan")
    THEN TerminateOnNan(engine)
    ELSE engine

\* EarlyStopping.__call__(engine): the handler's new state and whether it
\* terminates its trainer
EarlyStoppingCall(es, score, patience) ==
    IF ~es.has_best
    THEN [es |-> [es EXCEPT !.has_best = TRUE, !.best_score = score,
                            !.calls = @ + 1],
          terminate |-> FALSE]
    ELSE IF Lt(score, es.best_score)
    THEN [es |-> [es EXCEPT !.counter = @ + 1, !.calls = @ + 1],
          terminate |-> es.counter + 1 >= patience]
    ELSE [es |-> [es EXCEPT !.best_score = score, !.counter = 0, !.calls = @ + 1],
          terminate |-> FALSE]

\* __main__: parse the arguments, load the runner, start the run
Main ==
    /\ pc = "start"
    /\ experiment_file' = ExperimentFile(cli.config)
    /\ launch' = Launch(cli.webhook_url)
    /\ notifications' = IF Launch(cli.webhook_url) = "run_with_slack"
                        THEN <<"started">> ELSE <<>>
    /\ trainer' = [trainer EXCEPT !.state = "running"]
    /\ pc' = "training"
    /\ UNCHANGED <<cli, evaluator, early, val_losses, uvars>>

\* one iteration of the trainer: the process function, then ITERATION_COMPLETED
TrainerIteration(output) ==
    /\ pc = "training"
    /\ ~trainer.should_terminate
    /\ trainer.batch < ItersPerEpoch
    /\ trainer.batch = 0 => trainer.epoch < MaxEpochs
    /\ trainer' = FireTrainer("ITERATION_COMPLETED",
                      [trainer EXCEPT
                          !.epoch = IF trainer.batch = 0 THEN @ + 1 ELSE @,
                          !.iteration = @ + 1,
                          !.batch = @ + 1,
                          !.output = output])
    /\ UNCHANGED <<cli, pc, experiment_file, launch, notifications, evaluator,
                   early, val_losses, uvars>>

\* EPOCH_COMPLETED of the trainer: the evaluator runs on the validation data,
\* and its COMPLETED handlers run
TrainerEpochCompleted(val_loss) ==
    /\ pc = "training"
    /\ ~trainer.should_terminate
    /\ trainer.batch = ItersPerEpoch
    /\ LET stop == EarlyStoppingCall(early, score_function([loss |-> val_loss]),
                                     EarlyStoppingArgs.patience)
           on == Attached("evaluator", "COMPLETED", "EarlyStopping")
           fired == FireTrainer("EPOCH_COMPLETED", [trainer EXCEPT !.batch = 0])
       IN  /\ val_losses' = Append(val_losses, val_loss)
           /\ early' = IF on THEN stop.es ELSE early
           /\ trainer' =
                IF on /\ stop.terminate /\ EarlyStoppingArgs.trainer = "trainer"
                THEN [fired EXCEPT !.should_terminate = TRUE,
                                   !.terminated_by = @ \cup {"EarlyStopping"}]
                ELSE fired
           /\ evaluator' =
                [runs |-> evaluator.runs + 1,
                 should_terminate |->
                    \/ evaluator.should_terminate
                    \/ on /\ stop.terminate /\ EarlyStoppingArgs.trainer = "evaluator"]
    /\ UNCHANGED <<cli, pc, experiment_file, launch, notifications, uvars>>

\* the trainer's run returns: terminated, or max_epochs reached; the decorator
\* of run_with_slack posts the final message
TrainerCompleted ==
    /\ pc = "training"
    /\ \/ trainer.should_terminate
       \/ trainer.batch = 0 /\ trainer.epoch = MaxEpochs
    /\ trainer' = [trainer EXCEPT !.state = "done"]
    /\ notifications' = IF launch = "run_with_slack"
                        THEN Append(notifications, "finished") ELSE notifications
    /\ pc' = "done"
    /\ UNCHANGED <<cli, experiment_file, launch, evaluator, early, val_losses, uvars>>

InitEngine ==
    /\ \E run \in EngineRuns : cli = run[1] /\ data = run[2]
    /\ cfg = CHOOSE c \in AverageConfigs : c.regularizer /\ c.names = {"accuracy"}
    /\ UpdateIdle
    /\ EngineStart

NextEngine ==
    \/ Main
    \/ \E output \in TrainerOutputs : TrainerIteration(output)
    \/ \E val_loss \in data.val_loss : TrainerEpochCompleted(val_loss)
    \/ TrainerCompleted

SpecEngine == InitEngine /\ [][NextEngine]_vars

----------------------------------------------------------------------------
(* Properties of Runner.update *)

RECURSIVE SumSeq(_)
SumSeq(seq) == IF seq = <<>> THEN Zero ELSE Add(Head(seq), SumSeq(Tail(seq)))

\* arithmetic mean of a non-empty sequence of floats
Mean(seq) == DivInt(SumSeq(seq), Len(seq))

AllFinite(seq) == \A i \in DOMAIN seq : IsFinite(seq[i])

\* old + (batch - old) / (n + 1), written out
Averaged(old, batch, n) == Add(old, DivInt(Add(batch, Neg(old)), n + 1))

\* position of the first call named c in a sequence of calls, 0 when absent
Pos(calls, c) ==
    IF \E i \in DOMAIN calls : calls[i] = c
    THEN CHOOSE i \in DOMAIN calls :
            calls[i] = c /\ \A j \in DOMAIN calls : calls[j] = c => i <= j
    ELSE 0

Count(calls, c) == Cardinality({i \in DOMAIN calls : calls[i] = c})

\* C1 as stated: after the call for batch i of an epoch (batch_index 0, 1, ..., i,
\* each call given the running_loss the previous one returned), the returned
\* running_loss is the arithmetic mean of the batch losses L_0..L_i, for any
\* sequence of batch losses.
C1_RunningLossIsMean ==
    last.called => running_loss = Mean(losses)

\* C1 amended: the same, for finite batch losses and a finite running_loss handed
\* to the first call of the epoch.
C1_RunningLossIsMeanOfFinite ==
    (last.called /\ IsFinite(chain_in) /\ AllFinite(losses))
        => /\ Len(losses) = batch_index + 1
           /\ running_loss = Mean(losses)

C1_Witness ==
    /\ last.called
    /\ batch_index = 2
    /\ losses = <<Fin(1, 1), Fin(3, 1), Fin(3, 1)>>
    /\ IsFinite(chain_in) /\ chain_in # Zero
    /\ running_loss = Fin(7, 3)

\* C2: one call with batch_index = n moves the running loss and the running
\* value of every metric in metrics.names by (batch value - old value) / (n + 1),
\* the same divisor for all of them, and leaves every other entry of
\* running_metrics as it was.
C2_SameStepForLossAndMetrics ==
    last.called =>
        LET n == last.batch_index
            old == last.running_metrics_in
        IN  /\ running_loss = Averaged(last.running_loss_in, last.loss_batch, n)
            /\ DOMAIN running_metrics = DOMAIN old
            /\ DOMAIN last.metric_batch = cfg.names
            /\ \A m \in cfg.names :
                  running_metrics[RunningKey(m)]
                      = Averaged(old[RunningKey(m)], last.metric_batch[m], n)
            /\ \A key \in DOMAIN old :
                  (\A m \in cfg.names : key # RunningKey(m))
                      => running_metrics[key] = old[key]

C2_Witness ==
    /\ last.called
    /\ last.batch_index = 2
    /\ cfg.names = {"accuracy"}
    /\ running_metrics["running_accuracy"] = Fin(1, 3)
    /\ last.running_metrics_in["running_accuracy"] = Zero
    /\ running_metrics["running_f1"] = Zero
    /\ running_metrics["other"] = Fin(7, 1)

\* C3 as stated: in a training update of a runner with gradient_clipping, the
\* gradients are clipped before loss.backward() and the optimizer step follows
\* the backward pass: clip, backward, step.
C3_ClipBackwardStep ==
    (last.called /\ last.compute_gradient /\ cfg.gradient_clipping)
        => /\ Pos(last.calls, "clip_grad_norm_") < Pos(last.calls, "backward")
           /\ Pos(last.calls, "backward") < Pos(last.calls, "step")

\* C3 amended: the gradients are clipped after loss.backward() and before the
\* optimizer step: backward, clip, step, each once.
C3_BackwardClipStep ==
    (last.called /\ last.compute_gradient /\ cfg.gradient_clipping)
        => /\ Count(last.calls, "backward") = 1
           /\ Count(last.calls, "clip_grad_norm_") = 1
           /\ Count(last.calls, "step") = 1
           /\ Pos(last.calls, "backward") < Pos(last.calls, "clip_grad_norm_")
           /\ Pos(last.calls, "clip_grad_norm_") < Pos(last.calls, "step")

C3_Witness ==
    /\ last.called /\ last.compute_gradient /\ cfg.gradient_clipping
    /\ grads = "clipped"
    /\ opt_steps = last.opt_steps_in + 1

\* C4: with a regularizer, the reported batch loss is loss + penalty and that sum
\* is what enters the running loss, while the value backpropagated by a training
\* update is the loss without the penalty.
C4_PenaltyReportedNotBackpropagated ==
    (last.called /\ cfg.regularizer)
        => /\ last.penalty \in PenaltyValues
           /\ last.loss_batch = Add(last.loss, last.penalty)
           /\ running_loss
                = Averaged(last.running_loss_in, Add(last.loss, last.penalty),
                           last.batch_index)
           /\ last.compute_gradient => last.backward = <<last.loss>>

C4_Witness ==
    /\ last.called /\ cfg.regularizer /\ last.compute_gradient
    /\ last.loss = Fin(3, 1)
    /\ last.loss_batch = Fin(4, 1)
    /\ last.backward = <<Fin(3, 1)>>

\* C7: a validation/test pass (compute_gradient = False) makes no zero_grad, no
\* backward, no gradient clipping and no optimizer step, leaves the gradients and
\* the parameters as they were, and updates the running loss and the running
\* metrics by the step of a training update.
C7_ValidationLeavesOptimizerAlone ==
    (last.called /\ ~last.compute_gradient)
        => /\ \A c \in {"zero_grad", "backward", "clip_grad_norm_", "step"} :
                  Count(last.calls, c) = 0
           /\ grads = last.grads_in
           /\ opt_steps = last.opt_steps_in
           /\ running_loss
                = Averaged(last.running_loss_in, last.loss_batch, last.batch_index)
           /\ \A m \in cfg.names :
                  running_metrics[RunningKey(m)]
                      = Averaged(last.running_metrics_in[RunningKey(m)],
                                 last.metric_batch[m], last.batch_index)

C7_Witness ==
    /\ last.called /\ ~last.compute_gradient
    /\ last.batch_index = 1
    /\ last.grads_in = "clipped" /\ grads = "clipped"
    /\ last.opt_steps_in = 1 /\ opt_steps = 1
    /\ running_loss # last.running_loss_in

\* C9 as stated: a call with batch_index = 0 returns the batch loss as running
\* loss and each batch metric as running metric, whatever running_loss and
\* running_metrics were passed in.
C9_FirstBatchDiscardsAverages ==
    (last.called /\ last.batch_index = 0)
        => /\ running_loss = last.loss_batch
           /\ \A m \in cfg.names :
                  running_metrics[RunningKey(m)] = last.metric_batch[m]

\* C9 amended: the same, for every passed-in value that is finite.
C9_FirstBatchDiscardsFiniteAverages ==
    (last.called /\ last.batch_index = 0)
        => /\ IsFinite(last.running_loss_in) => running_loss = last.loss_batch
           /\ \A m \in cfg.names :
                  IsFinite(last.running_metrics_in[RunningKey(m)])
                      => running_metrics[RunningKey(m)] = last.metric_batch[m]

C9_Witness ==
    /\ last.called /\ last.batch_index = 0 /\ ncalls >= 2
    /\ last.running_loss_in = Fin(3, 1)
    /\ last.loss_batch = Fin(1, 1) /\ running_loss = Fin(1, 1)
    /\ \E m \in cfg.names :
          /\ last.running_metrics_in[RunningKey(m)] = Fin(1, 1)
          /\ last.metric_batch[m] = Fin(1, 1)

\* C10: the loss receives mask_index exactly when the loss has a 'mask' attribute
\* and self.mask_index is truthy (so never for a mask_index of 0 or None, and
\* never for a loss without 'mask'); every metric of the call receives the same
\* arguments as the loss.
C10_MaskIndexPassedWhenTruthy ==
    last.called =>
        /\ ("mask_index" \in last.loss_params.keys)
              <=> (cfg.loss_has_mask /\ ~cfg.mask_index.none /\ cfg.mask_index.v # 0)
        /\ {"input", "target"} \subseteq last.loss_params.keys
        /\ last.loss_params.keys \subseteq {"input", "target", "mask_index"}
        /\ "mask_index" \in last.loss_params.keys
              => last.loss_params.mask_index = cfg.mask_index
        /\ DOMAIN last.metric_params = cfg.names
        /\ \A m \in cfg.names : last.metric_params[m] = last.loss_params

C10_Witness ==
    /\ last.called
    /\ cfg.loss_has_mask /\ cfg.mask_index = Int_(0)
    /\ "mask_index" \notin last.loss_params.keys
    /\ \A m \in cfg.names : "mask_index" \notin last.metric_params[m].keys

----------------------------------------------------------------------------
(* Properties of the handlers and of the command line *)

\* C5: TerminateOnNan is attached to the trainer on ITERATION_COMPLETED, and once
\* a training iteration has completed with a NaN output no further training
\* iteration (and no further epoch) is started.
C5_NoIterationAfterNan ==
    [][(trainer.iteration >= 1 /\ trainer.output = NaN)
          => /\ trainer.should_terminate
             /\ "TerminateOnNan" \in trainer.terminated_by
             /\ trainer'.iteration = trainer.iteration
             /\ trainer'.epoch = trainer.epoch
             /\ evaluator'.runs = evaluator.runs]_vars

C5_Witness ==
    /\ pc = "done"
    /\ trainer.output = NaN
    /\ trainer.iteration = ItersPerEpoch + 1
    /\ trainer.epoch = 2
    /\ evaluator.runs = 1

\* C6: the experiment file is the --config argument, or 'experiments/mlp.json'
\* when --config is absent or empty; chat notifications are posted only when the
\* webhook URL is non-empty and not the placeholder 'YourWebhookURL', and then one
\* is posted when the run completes; with no webhook configured the experiment
\* is still run, and nothing is posted.
C6_ConfigDefaultAndOptionalNotification ==
    LET configured ==
            cli.webhook_url # "" /\ cli.webhook_url # "YourWebhookURL"
    IN  pc # "start" =>
          /\ experiment_file =
                IF cli.config.none \/ cli.config.s = ""
                THEN [none |-> FALSE, s |-> "experiments/mlp.json"]
                ELSE cli.config
          /\ launch \in {"run_with_slack", "run_pipeline"}
          /\ trainer.state # "idle"
          /\ ~configured => launch = "run_pipeline" /\ notifications = <<>>
          /\ (configured /\ pc = "done")
                => notifications[Len(notifications)] = "finished"
          /\ (configured /\ pc # "done")
                => \A i \in DOMAIN notifications : notifications[i] # "finished"

C6_Witness ==
    /\ pc = "done"
    /\ cli.config = Str("")
    /\ cli.webhook_url = "YourWebhookURL"
    /\ experiment_file = Str("experiments/mlp.json")
    /\ launch = "run_pipeline"
    /\ trainer.epoch = MaxEpochs
    /\ notifications = <<>>

\* the best (lowest) validation loss so far and the number of evaluations since
\* it was last matched or improved
RECURSIVE SinceBest(_)
SinceBest(seq) ==
    IF Len(seq) = 1 THEN [best |-> seq[1], count |-> 0]
    ELSE LET before == SinceBest(SubSeq(seq, 1, Len(seq) - 1))
             loss == seq[Len(seq)]
         IN  IF Lt(before.best, loss)
             THEN [best |-> before.best, count |-> before.count + 1]
             ELSE [best |-> loss, count |-> 0]

====
